---------------------------- MODULE Spec2Model ----------------------------
(***************************************************************************)
(* The Mandelbrot CPU-vs-GPU benchmark page (src/unnamed/part_001):        *)
(* calculateMandelbrotCPU, the WGSL compute shader, drawMandelbrot and     *)
(* App.handleRun.                                                          *)
(*                                                                         *)
(* Numbers.  A JavaScript number is an IEEE-754 binary64 and a WGSL f32 a  *)
(* binary32.  Both are modelled exactly: a finite value is a record        *)
(* [neg, m, e] standing for (-1)^neg * m * 2^e, m an arbitrary-precision   *)
(* natural held as little-endian limbs of LimbBits bits (the model         *)
(* checker's own integers are 32 bits wide).  Every arithmetic operation   *)
(* computes the exact result and rounds it to the format's precision,      *)
(* round-to-nearest, ties-to-even.  All values of the program stay far     *)
(* inside the normal exponent range of both formats (|z| < 16 while the    *)
(* loop runs), so overflow, subnormals, infinities and NaN do not occur    *)
(* and are not modelled; the sign of zero is dropped (no operation of the  *)
(* program distinguishes -0 from +0).                                      *)
(*                                                                         *)
(* Names.  Definitions, parameters and variables carry the names of the    *)
(* source.  Where a parameter or bound name of an operator is also the     *)
(* name of a state variable, the parameter is written with a trailing      *)
(* underscore: x_ is the argument of the function, x the loop variable of  *)
(* the running program.                                                    *)
(***************************************************************************)
EXTENDS Integers, Sequences, FiniteSets, TLC

(***************************************************************************)
(* Arbitrary-precision naturals: <<l0, l1, ...>> is l0 + l1*Base + ...,    *)
(* without leading (high) zero limbs; <<>> is 0.                           *)
(***************************************************************************)
LimbBits == 2 * 7
Base == 2^LimbBits

Pow2(k) == 2^k

RECURSIVE Trim(_)
Trim(a) ==
    IF a = <<>> THEN <<>>
    ELSE IF a[Len(a)] = 0 THEN Trim(SubSeq(a, 1, Len(a) - 1))
    ELSE a

RECURSIVE BigOfNat(_)
BigOfNat(n) == IF n = 0 THEN <<>> ELSE <<n % Base>> \o BigOfNat(n \div Base)

RECURSIVE BigAddC(_, _, _)
BigAddC(a, b, carry) ==
    IF a = <<>> /\ b = <<>> THEN (IF carry = 0 THEN <<>> ELSE <<carry>>)
    ELSE LET x_ == IF a = <<>> THEN 0 ELSE a[1]
             y_ == IF b = <<>> THEN 0 ELSE b[1]
             s == x_ + y_ + carry
         IN  <<s % Base>> \o BigAddC(IF a = <<>> THEN a ELSE Tail(a),
                                     IF b = <<>> THEN b ELSE Tail(b),
                                     s \div Base)

BigAdd(a, b) == BigAddC(a, b, 0)

\* a - b for a >= b
RECURSIVE BigSubB(_, _, _)
BigSubB(a, b, borrow) ==
    IF a = <<>> THEN <<>>
    ELSE LET y_ == IF b = <<>> THEN 0 ELSE b[1]
             d == a[1] - y_ - borrow
         IN  <<IF d < 0 THEN d + Base ELSE d>>
               \o BigSubB(Tail(a), IF b = <<>> THEN b ELSE Tail(b),
                          IF d < 0 THEN 1 ELSE 0)

BigSub(a, b) == Trim(BigSubB(a, b, 0))

\* -1, 0, 1 as a < b, a = b, a > b
RECURSIVE BigCmpFrom(_, _, _)
BigCmpFrom(a, b, k) ==
    IF k = 0 THEN 0
    ELSE IF a[k] < b[k] THEN -1
    ELSE IF a[k] > b[k] THEN 1
    ELSE BigCmpFrom(a, b, k - 1)

BigCmp(a, b) ==
    IF Len(a) < Len(b) THEN -1
    ELSE IF Len(a) > Len(b) THEN 1
    ELSE BigCmpFrom(a, b, Len(a))

\* a * k for 0 <= k < Base
RECURSIVE BigMulSmallC(_, _, _)
BigMulSmallC(a, k, carry) ==
    IF a = <<>> THEN (IF carry = 0 THEN <<>> ELSE <<carry>>)
    ELSE LET s == a[1] * k + carry
         IN  <<s % Base>> \o BigMulSmallC(Tail(a), k, s \div Base)

BigMulSmall(a, k) == IF k = 0 THEN <<>> ELSE BigMulSmallC(a, k, 0)

\* a * b for a, b of at most four limbs (no mantissa of a binary64 is longer):
\* column k of the schoolbook product sums at most four limb products, which
\* stays below 2^31, and the carries are then propagated upwards.
RECURSIVE ColSum(_, _, _, _)
ColSum(a, b, k, i_) ==
    IF i_ > Len(a) \/ i_ > k THEN 0
    ELSE (IF k + 1 - i_ <= Len(b) THEN a[i_] * b[k + 1 - i_] ELSE 0)
         + ColSum(a, b, k, i_ + 1)

RECURSIVE Carry(_, _, _)
Carry(cols, k, carry) ==
    IF k > Len(cols) THEN (IF carry = 0 THEN <<>> ELSE <<carry % Base, carry \div Base>>)
    ELSE LET s == cols[k] + carry
         IN  <<s % Base>> \o Carry(cols, k + 1, s \div Base)

BigMul(a, b) ==
    IF a = <<>> \/ b = <<>> THEN <<>>
    ELSE Trim(Carry([k \in 1..(Len(a) + Len(b) - 1) |-> ColSum(a, b, k, 1)], 1, 0))

\* floor(a / d) for 0 < d < Base, high limb first
RECURSIVE BigDivSmallR(_, _, _, _)
BigDivSmallR(a, d, k, rem) ==
    IF k = 0 THEN [q |-> <<>>, r |-> rem]
    ELSE LET cur == rem * Base + a[k]
             lo  == BigDivSmallR(a, d, k - 1, cur % d)
         IN  [q |-> lo.q \o <<cur \div d>>, r |-> lo.r]

BigDivSmall(a, d) ==
    LET res == BigDivSmallR(a, d, Len(a), 0)
    IN  [q |-> Trim(res.q), r |-> res.r]

RECURSIVE Zeros(_)
Zeros(n) == IF n = 0 THEN <<>> ELSE <<0>> \o Zeros(n - 1)

\* a * 2^k
BigShl(a, k) ==
    IF a = <<>> \/ k = 0 THEN a
    ELSE IF k % LimbBits = 0 THEN Zeros(k \div LimbBits) \o a
    ELSE Zeros(k \div LimbBits) \o BigMulSmallC(a, Pow2(k % LimbBits), 0)

\* floor(a / 2^k)
BigShr(a, k) ==
    LET drop == k \div LimbBits
        bits == k % LimbBits
        lo   == Pow2(bits)
        hi   == Pow2(LimbBits - bits)
        n    == Len(a) - drop
    IN  IF n <= 0 THEN <<>>
        ELSE IF bits = 0 THEN SubSeq(a, drop + 1, Len(a))
        ELSE Trim([i_ \in 1..n |->
                     (a[drop + i_] \div lo)
                     + (IF drop + i_ < Len(a) THEN (a[drop + i_ + 1] % lo) * hi ELSE 0)])

\* bit k of a (bit 0 is the lowest)
BigBit(a, k) ==
    LET i_ == k \div LimbBits + 1
    IN  IF i_ > Len(a) THEN 0 ELSE (a[i_] \div Pow2(k % LimbBits)) % 2

\* whether the k lowest bits of a are all zero
BigLowZero(a, k) ==
    LET full == k \div LimbBits
    IN  /\ \A i_ \in 1..full : i_ > Len(a) \/ a[i_] = 0
        /\ (full + 1 > Len(a) \/ a[full + 1] % Pow2(k % LimbBits) = 0)

RECURSIVE NatBits(_)
NatBits(n) == IF n = 0 THEN 0 ELSE 1 + NatBits(n \div 2)

\* number of significant bits of a
BigLen(a) ==
    IF a = <<>> THEN 0 ELSE LimbBits * (Len(a) - 1) + NatBits(a[Len(a)])

\* number of trailing zero bits of a /= 0
RECURSIVE NatTz(_)
NatTz(n) == IF n % 2 = 1 THEN 0 ELSE 1 + NatTz(n \div 2)

RECURSIVE BigTz(_)
BigTz(a) == IF a[1] = 0 THEN LimbBits + BigTz(Tail(a)) ELSE NatTz(a[1])

(***************************************************************************)
(* Floating point.  Canonical form: m odd, or m = <<>> with e = 0 and      *)
(* neg = FALSE for zero, so that equal values are equal records.           *)
(***************************************************************************)
FZero == [neg |-> FALSE, m |-> <<>>, e |-> 0]

Canon(neg, m, e) ==
    IF m = <<>> THEN FZero
    ELSE LET tz == BigTz(m)
         IN  [neg |-> neg, m |-> IF tz = 0 THEN m ELSE BigShr(m, tz), e |-> e + tz]

\* The exact value (-1)^neg * m * 2^e rounded to p significant bits,
\* round-to-nearest, ties-to-even.
Round(neg, m, e, p) ==
    LET len == BigLen(m)
    IN  IF len <= p THEN Canon(neg, m, e)
        ELSE LET k    == len - p
                 q    == BigShr(m, k)
                 half == BigBit(m, k - 1) = 1
                 rest == ~BigLowZero(m, k - 1)
                 up   == half /\ (rest \/ BigBit(q, 0) = 1)
             IN  Canon(neg, IF up THEN BigAdd(q, <<1>>) ELSE q, e + k)

FInt(n) == IF n >= 0 THEN Canon(FALSE, BigOfNat(n), 0) ELSE Canon(TRUE, BigOfNat(-n), 0)

\* n / 2^k, exact
FDyadic(n, k) == IF n >= 0 THEN Canon(FALSE, BigOfNat(n), -k) ELSE Canon(TRUE, BigOfNat(-n), -k)

FNeg(a) == IF a.m = <<>> THEN a ELSE [a EXCEPT !.neg = ~a.neg]

FAbs(a) == [a EXCEPT !.neg = FALSE]

FMul(a, b, p) ==
    IF a.m = <<>> \/ b.m = <<>> THEN FZero
    ELSE Round(a.neg /= b.neg, BigMul(a.m, b.m), a.e + b.e, p)

FAdd(a, b, p) ==
    IF a.m = <<>> THEN b
    ELSE IF b.m = <<>> THEN a
    ELSE LET e  == IF a.e < b.e THEN a.e ELSE b.e
             am == BigShl(a.m, a.e - e)
             bm == BigShl(b.m, b.e - e)
         IN  IF a.neg = b.neg THEN Round(a.neg, BigAdd(am, bm), e, p)
             ELSE LET c == BigCmp(am, bm)
                  IN  IF c = 0 THEN FZero
                      ELSE IF c > 0 THEN Round(a.neg, BigSub(am, bm), e, p)
                      ELSE Round(b.neg, BigSub(bm, am), e, p)

FSub(a, b, p) == FAdd(a, FNeg(b), p)

\* a / d for an integer 0 < d < Base, correctly rounded: the quotient is
\* computed to more than p + 2 bits and the remainder kept as a sticky bit.
FDivInt(a, d, p) ==
    IF a.m = <<>> THEN FZero
    ELSE LET k   == p + 2 + LimbBits
             res == BigDivSmall(BigShl(a.m, k), d)
             q2  == BigAdd(BigShl(res.q, 1), IF res.r = 0 THEN <<>> ELSE <<1>>)
         IN  Round(a.neg, q2, a.e - k - 1, p)

\* a < b, exact
FLess(a, b) ==
    IF a.m = <<>> THEN (b.m /= <<>> /\ ~b.neg)
    ELSE IF b.m = <<>> THEN a.neg
    ELSE IF a.neg /= b.neg THEN a.neg
    ELSE LET e  == IF a.e < b.e THEN a.e ELSE b.e
             c  == BigCmp(BigShl(a.m, a.e - e), BigShl(b.m, b.e - e))
         IN  IF a.neg THEN c > 0 ELSE c < 0


\* the integer part of a >= 0 (truncation)
RECURSIVE BigToNat(_)
BigToNat(a) == IF a = <<>> THEN 0 ELSE a[1] + Base * BigToNat(Tail(a))

FTrunc(a) ==
    IF a.m = <<>> THEN 0
    ELSE IF a.e >= 0 THEN BigToNat(BigShl(a.m, a.e))
    ELSE BigToNat(BigShr(a.m, -a.e))

(***************************************************************************)
(* The two number formats of the program: a JavaScript number (binary64,   *)
(* 53 significant bits) and a WGSL f32 (binary32, 24 significant bits).    *)
(***************************************************************************)
F64Bits == 53
F32Bits == 24

MAX_ITERATIONS == 255
WorkgroupSize == 8

(***************************************************************************)
(* calculateMandelbrotCPU: the body of the two for loops for one cell.     *)
(***************************************************************************)
\* (mutant of CpuCx: the sample taken at the centre of the pixel, x + 0.5)
CpuCxPixelCentre(x_, width_) ==
    FMul(FSub(FDivInt(FAdd(FInt(x_), FDyadic(1, 1), F64Bits), width_, F64Bits),
              FDyadic(3, 2), F64Bits),
         FDyadic(5, 1), F64Bits)

\* (mutant of CpuCx: the real axis centred on the grid, 0.5 for 0.75)
CpuCxCentred(x_, width_) ==
    FMul(FSub(FDivInt(FInt(x_), width_, F64Bits), FDyadic(1, 1), F64Bits),
         FDyadic(5, 1), F64Bits)

\* const cx = (x / width - 0.75) * 2.5;
CpuCx(x_, width_) ==
    FMul(FSub(FDivInt(FInt(x_), width_, F64Bits), FDyadic(3, 2), F64Bits),
         FDyadic(5, 1), F64Bits)

\* const cy = (y / height - 0.5) * 2.0;
CpuCy(y_, height_) ==
    FMul(FSub(FDivInt(FInt(y_), height_, F64Bits), FDyadic(1, 1), F64Bits),
         FInt(2), F64Bits)

\* (mutant of CpuCond: the cap tested with <= instead of <)
CpuCondInclusive(i_, max_iter, zx_, zy_) ==
    /\ i_ <= max_iter
    /\ FLess(FAdd(FMul(zx_, zx_, F64Bits), FMul(zy_, zy_, F64Bits), F64Bits), FInt(4))

\* while (i < max_iter && zx * zx + zy * zy < 4.0)
CpuCond(i_, max_iter, zx_, zy_) ==
    /\ i_ < max_iter
    /\ FLess(FAdd(FMul(zx_, zx_, F64Bits), FMul(zy_, zy_, F64Bits), F64Bits), FInt(4))

\* const temp_zx = zx * zx - zy * zy + cx;
CpuTempZx(zx_, zy_, cx_) ==
    FAdd(FSub(FMul(zx_, zx_, F64Bits), FMul(zy_, zy_, F64Bits), F64Bits), cx_, F64Bits)

\* zy = 2.0 * zx * zy + cy;
CpuNextZy(zx_, zy_, cy_) ==
    FAdd(FMul(FMul(FInt(2), zx_, F64Bits), zy_, F64Bits), cy_, F64Bits)

(***************************************************************************)
(* The compute shader.  params is the uniform record of three f32, written *)
(* by handleRun from a Float32Array; one invocation is identified by its   *)
(* global_invocation_id gid = [x, y].  The shader's locals are private to  *)
(* the invocation, so the loop is folded into the operator ShaderLoop.     *)
(***************************************************************************)
\* new Float32Array([width, height, MAX_ITERATIONS, 0])
ToF32(n) == Round(FALSE, BigOfNat(n), 0, F32Bits)

Params(width_, height_, max_iter) ==
    [width |-> ToF32(width_), height |-> ToF32(height_), max_iter |-> ToF32(max_iter)]

\* paramsBuffer before queue.writeBuffer: a buffer is created zero-filled
NoParams == [width |-> FZero, height |-> FZero, max_iter |-> FZero]

\* u32(f) of a non-negative f32
U32(f) == FTrunc(f)

\* let cx = (f32(global_id.x) / params.width - 0.75) * 2.5;
ShaderCx(gid, params) ==
    FMul(FSub(FDivInt(ToF32(gid.x), U32(params.width), F32Bits), FDyadic(3, 2), F32Bits),
         FDyadic(5, 1), F32Bits)

\* let cy = (f32(global_id.y) / params.height - 0.5) * 2.0;
ShaderCy(gid, params) ==
    FMul(FSub(FDivInt(ToF32(gid.y), U32(params.height), F32Bits), FDyadic(1, 1), F32Bits),
         FInt(2), F32Bits)

\* (mutant of ShaderCond: the cap is not tested)
ShaderCondNoCap(i_, params, zx_, zy_) ==
    FLess(FAdd(FMul(zx_, zx_, F32Bits), FMul(zy_, zy_, F32Bits), F32Bits), FInt(4))

\* while (i < u32(params.max_iter) && zx * zx + zy * zy < 4.0)
ShaderCond(i_, params, zx_, zy_) ==
    /\ i_ < U32(params.max_iter)
    /\ FLess(FAdd(FMul(zx_, zx_, F32Bits), FMul(zy_, zy_, F32Bits), F32Bits), FInt(4))

\* One trip through the while loop: the test, and the body when it passes.
\* s holds the locals i, zx, zy; s.run is FALSE once the test has failed.
ShaderTrip(s, cx_, cy_, params) ==
    IF ~s.run THEN s
    ELSE IF ShaderCond(s.i, params, s.zx, s.zy)
    THEN [run |-> TRUE,
          i   |-> s.i + 1,
          zx  |-> FAdd(FSub(FMul(s.zx, s.zx, F32Bits), FMul(s.zy, s.zy, F32Bits), F32Bits),
                       cx_, F32Bits),
          zy  |-> FAdd(FMul(FMul(FInt(2), s.zx, F32Bits), s.zy, F32Bits), cy_, F32Bits)]
    ELSE [s EXCEPT !.run = FALSE]

\* n trips, one after the other (split in halves, which keeps the depth of
\* the evaluation logarithmic in n)
RECURSIVE ShaderTrips(_, _, _, _, _)
ShaderTrips(n, s, cx_, cy_, params) ==
    IF n = 0 \/ ~s.run THEN s
    ELSE IF n = 1 THEN ShaderTrip(s, cx_, cy_, params)
    ELSE LET half == ShaderTrips(n \div 2, s, cx_, cy_, params)
         IN  ShaderTrips(n - n \div 2, half, cx_, cy_, params)

\* The while loop: the locals when it ends.  The test fails at the latest on
\* trip u32(params.max_iter) + 1; a loop still running after that many trips
\* is reported with run = TRUE.
ShaderLoop(cx_, cy_, params) ==
    ShaderTrips(U32(params.max_iter) + 1,
                [run |-> TRUE, i |-> 0, zx |-> FZero, zy |-> FZero], cx_, cy_, params)

\* if (global_id.x >= u32(params.width) || global_id.y >= u32(params.height)) return;
\* the bounds guard with > in place of >=
ShaderReturnsEarlyStrict(gid, params) ==
    gid.x > U32(params.width) \/ gid.y > U32(params.height)

ShaderReturnsEarly(gid, params) ==
    gid.x >= U32(params.width) \/ gid.y >= U32(params.height)

\* the value stored by output[index] = i
ShaderCount(gid, params) ==
    ShaderLoop(ShaderCx(gid, params), ShaderCy(gid, params), params).i

\* let index = global_id.y * u32(params.width) + global_id.x;
ShaderIndex(gid, params) == gid.y * U32(params.width) + gid.x


\* One trip through the while loop of calculateMandelbrotCPU: the test, and
\* the body when it passes.  s holds the locals i, zx, zy; s.run is FALSE once
\* the test has failed.
CpuTrip(s, cx_, cy_, max_iter) ==
    IF ~s.run THEN s
    ELSE IF CpuCond(s.i, max_iter, s.zx, s.zy)
    THEN [run |-> TRUE,
          i   |-> s.i + 1,
          zx  |-> CpuTempZx(s.zx, s.zy, cx_),
          zy  |-> CpuNextZy(s.zx, s.zy, cy_)]
    ELSE [s EXCEPT !.run = FALSE]

RECURSIVE CpuTrips(_, _, _, _, _)
CpuTrips(n, s, cx_, cy_, max_iter) ==
    IF n = 0 \/ ~s.run THEN s
    ELSE IF n = 1 THEN CpuTrip(s, cx_, cy_, max_iter)
    ELSE LET half == CpuTrips(n \div 2, s, cx_, cy_, max_iter)
         IN  CpuTrips(n - n \div 2, half, cx_, cy_, max_iter)

\* The while loop: the locals when it ends (the test fails at the latest on
\* trip max_iter + 1).
CpuLoop(cx_, cy_, max_iter) ==
    CpuTrips(max_iter + 1, [run |-> TRUE, i |-> 0, zx |-> FZero, zy |-> FZero],
             cx_, cy_, max_iter)

\* the value stored by data[y * width + x] = i
CpuCount(x_, y_, width_, height_, max_iter) ==
    CpuLoop(CpuCx(x_, width_), CpuCy(y_, height_), max_iter).i

\* before dispatchWorkgroups: no workgroup
NoDispatch == [x |-> 0, y |-> 0]

\* Math.ceil(a / b) for integers a >= 0, b > 0
CeilDiv(a, b) == (a + b - 1) \div b

\* passEncoder.dispatchWorkgroups(Math.ceil(width / 8), Math.ceil(height / 8)):
\* the workgroup counts in x and y
DispatchSize(w, h) == [x |-> CeilDiv(w, WorkgroupSize), y |-> CeilDiv(h, WorkgroupSize)]

\* @workgroup_size(8, 8): the global_invocation_ids of a dispatch of d workgroups
Invocations(d) ==
    {[x |-> a, y |-> b] : a \in 0..(d.x * WorkgroupSize - 1),
                          b \in 0..(d.y * WorkgroupSize - 1)}

\* A buffer of n u32, as WebGPU creates it: zero-filled.  Each element holds
\* its value v and, for the claims about who writes what, the set `by` of the
\* invocations that have stored to it.
ZeroBuffer(n) == [k \in 0..(n - 1) |-> [v |-> 0, by |-> {}]]

\* One invocation of the shader's main on the storage buffer `out`.  A store
\* past the end of the buffer is discarded (WGSL out-of-bounds access).
ShaderMain(gid, params, out) ==
    IF ShaderReturnsEarly(gid, params) THEN out
    ELSE LET index == ShaderIndex(gid, params)
         IN  IF index \in DOMAIN out
             THEN [out EXCEPT ![index] = [v  |-> ShaderCount(gid, params),
                                          by |-> @.by \cup {gid}]]
             ELSE out

\* a column-major index, x * width + y
CpuIndexColumnMajor(x_, y_, width_) == x_ * width_ + y_

\* data[y * width + x]
CpuIndex(x_, y_, width_) == y_ * width_ + x_

(***************************************************************************)
(* drawMandelbrot: the colour of one element of the data array.  The cap   *)
(* it compares with and divides by is the constant MAX_ITERATIONS, here    *)
(* the parameter max_iter so that the constant's value can be varied.      *)
(***************************************************************************)
\* a % 2 (exact; the result has the sign of a)
FMod2(a) ==
    IF a.m = <<>> \/ a.e >= 1 THEN FZero
    ELSE LET k == 1 - a.e
             q == BigShr(a.m, k)
         IN  Canon(a.neg, BigSub(a.m, BigShl(q, k)), a.e)

\* the threshold test with > in place of >=
DrawIsInsideStrict(iter_, max_iter) == iter_ > max_iter

\* if (iter >= MAX_ITERATIONS)
DrawIsInside(iter_, max_iter) == iter_ >= max_iter

\* a hue computed from the count after this one
DrawHueOfNext(iter_, max_iter) ==
    FDivInt(FMul(FInt(360), FInt(iter_ + 1), F64Bits), max_iter, F64Bits)

\* const hue = (360 * iter) / MAX_ITERATIONS
DrawHue(iter_, max_iter) ==
    FDivInt(FMul(FInt(360), FInt(iter_), F64Bits), max_iter, F64Bits)

DrawSaturation == FInt(1)

DrawLightness == FDyadic(1, 1)

\* const c = (1 - Math.abs(2 * lightness - 1)) * saturation
DrawC ==
    FMul(FSub(FInt(1),
              FAbs(FSub(FMul(FInt(2), DrawLightness, F64Bits), FInt(1), F64Bits)),
              F64Bits),
         DrawSaturation, F64Bits)

\* const x = c * (1 - Math.abs(((hue / 60) % 2) - 1))
DrawX(hue_) ==
    FMul(DrawC,
         FSub(FInt(1),
              FAbs(FSub(FMod2(FDivInt(hue_, 60, F64Bits)), FInt(1), F64Bits)),
              F64Bits),
         F64Bits)

\* const m = lightness - c / 2
DrawM == FSub(DrawLightness, FDivInt(DrawC, 2, F64Bits), F64Bits)

\* the branch of the if / else if chain taken for hue, 1 to 6
DrawSector(hue_) ==
    IF FLess(hue_, FInt(60)) THEN 1
    ELSE IF FLess(hue_, FInt(120)) THEN 2
    ELSE IF FLess(hue_, FInt(180)) THEN 3
    ELSE IF FLess(hue_, FInt(240)) THEN 4
    ELSE IF FLess(hue_, FInt(300)) THEN 5
    ELSE 6

\* [r, g, b] as branch k assigns them from c and x
DrawBranch(k, c, xx) ==
    CASE k = 1 -> <<c, xx, FZero>>
      [] k = 2 -> <<xx, c, FZero>>
      [] k = 3 -> <<FZero, c, xx>>
      [] k = 4 -> <<FZero, xx, c>>
      [] k = 5 -> <<xx, FZero, c>>
      [] k = 6 -> <<c, FZero, xx>>

DrawRgb(hue_) == DrawBranch(DrawSector(hue_), DrawC, DrawX(hue_))

\* (r + m) * 255, the number assigned to a channel
DrawChannel(v) == FMul(FAdd(v, DrawM, F64Bits), FInt(255), F64Bits)

\* The store of a number into imageData.data, a Uint8ClampedArray: clamped to
\* [0, 255] and rounded to the nearest integer, ties to even.
ToUint8Clamped(v) ==
    IF v.m = <<>> \/ v.neg THEN 0
    ELSE IF ~FLess(v, FInt(255)) THEN 255
    ELSE LET f == FTrunc(v)
             d == FSub(v, FInt(f), F64Bits)
             half == FDyadic(1, 1)
         IN  IF FLess(d, half) THEN f
             ELSE IF FLess(half, d) THEN f + 1
             ELSE IF f % 2 = 0 THEN f ELSE f + 1

DrawChannels(rgb) == [k \in 1..3 |-> DrawChannel(rgb[k])]

\* the three numbers assigned to the channels of the pixel
DrawAssigned(iter_, max_iter) ==
    IF DrawIsInside(iter_, max_iter) THEN <<FZero, FZero, FZero>>
    ELSE DrawChannels(DrawRgb(DrawHue(iter_, max_iter)))

\* the bytes of the pixel once the numbers a and the alpha 255 are stored
StorePixel(a) == [k \in 1..4 |-> IF k = 4 THEN 255 ELSE ToUint8Clamped(a[k])]

(***************************************************************************)
(* State.                                                                  *)
(***************************************************************************)
VARIABLES
    width, height, maxIter,   \* the parameters of the evaluation under way
    x, y,                     \* calculateMandelbrotCPU: the for-loop counters
                              \* (SpecCell: the one cell evaluated)
    cellPc,                   \* SpecCell: "cpu", "gpu", "done" ("off": not in use)
    cpuCount, gpuCount,       \* SpecCell: the count each evaluator stored
    coarseCount,              \* SpecScale: the count stored for the cell of the coarse grid
    cpuPc,                    \* position in calculateMandelbrotCPU
    i, zx, zy, cx, cy,        \* calculateMandelbrotCPU: the locals of the loop body
    data,                     \* calculateMandelbrotCPU: the Uint32Array
    visits,                   \* the cells stored so far, in order (history)
    pc,                       \* position in handleRun ("idle": no call under way)
    device,                   \* the GPUDevice: "none", "live", "destroyed", "lost"
    uniform,                  \* paramsBuffer
    output, staging,          \* outputBuffer, stagingBuffer
    mapState,                 \* stagingBuffer: "unmapped", "pending", "mapped"
    queue,                    \* device.queue: the submitted commands not yet executed
    dispatched,               \* the workgroup counts of the compute pass
    ran,                      \* the invocations of the pass that have stored their count
    resultData,               \* handleRun: resultData
    drawPc,                   \* drawMandelbrot: "read", "done" ("off": not in use)
    iter,                     \* drawMandelbrot: data[i]
    hue,                      \* drawMandelbrot: hue (zero until computed)
    assigned,                 \* the numbers assigned to the pixel's r, g, b
    pixel,                    \* imageData.data[pixelIndex .. pixelIndex + 3]
    isLoading,                \* App: isLoading
    resolution,               \* App: resolution
    results,                  \* App: results, [cpu |-> ..., gpu |-> ...]
    canvas,                   \* the two canvases: size and what they show
    hasGpu,                   \* whether navigator.gpu exists
    runType,                  \* the type of the last handleRun call ("none": no call yet)
    error,                    \* what that call threw ("none": nothing)
    alert,                    \* the alert that call showed ("none": no alert)
    trace,                    \* what that call has done so far, in order (history)
    inFlight,                 \* the handleRun calls that have passed the guard and not ended
    blocked                   \* the handleRun calls that returned at the guard during the
                              \* run under way (history)

None == "none"

\* let resultData: Uint32Array | null = null: no array yet
NoData == <<>>

paramVars == <<width, height, maxIter>>
cellVars == <<cellPc, cpuCount, gpuCount, coarseCount>>
cpuVars == <<cpuPc, i, zx, zy, cx, cy, data, visits>>
gpuVars == <<device, uniform, output, staging, mapState, queue, dispatched, ran>>
drawVars == <<drawPc, iter, hue, assigned, pixel>>
appVars == <<isLoading, resolution, results, canvas, hasGpu, runType, error, alert, trace,
             inFlight, blocked>>
vars == <<width, height, maxIter, x, y, cellPc, cpuCount, gpuCount, coarseCount,
          cpuPc, i, zx, zy, cx, cy, data, visits,
          pc, device, uniform, output, staging, mapState, queue, dispatched, ran,
          resultData, drawPc, iter, hue, assigned, pixel,
          isLoading, resolution, results, canvas, hasGpu, runType, error, alert, trace,
          inFlight, blocked>>

\* ctx.createImageData: transparent black
NoPixel == <<0, 0, 0, 0>>

\* the parts of the state a specification does not use
CellOff == cellPc = "off" /\ cpuCount = None /\ gpuCount = None /\ coarseCount = None

CpuOff ==
    /\ cpuPc = "off" /\ i = 0 /\ zx = FZero /\ zy = FZero /\ cx = FZero /\ cy = FZero
    /\ data = <<>> /\ visits = <<>>

GpuOff ==
    /\ device = "none" /\ uniform = NoParams /\ output = <<>> /\ staging = <<>>
    /\ mapState = "unmapped" /\ queue = <<>> /\ dispatched = NoDispatch /\ ran = {}

DrawOff ==
    /\ drawPc = "off" /\ iter = 0 /\ hue = FZero
    /\ assigned = <<FZero, FZero, FZero>> /\ pixel = NoPixel

\* a result that is null
NoResult == [method |-> "null", res |-> 0]

\* useState({ cpu: null, gpu: null })
NoResults == [cpu |-> NoResult, gpu |-> NoResult]

\* a canvas as mounted: nothing drawn
NoCanvas == [size |-> 0, image |-> "blank"]

AppOff ==
    /\ isLoading = FALSE /\ resolution = 0 /\ results = NoResults
    /\ canvas = [cpu |-> NoCanvas, gpu |-> NoCanvas] /\ hasGpu = FALSE
    /\ runType = "none" /\ error = "none" /\ alert = "none" /\ trace = <<>>
    /\ inFlight = 0 /\ blocked = 0

(***************************************************************************)
(* SpecCell: both evaluators applied to one cell.  The inputs are the grid *)
(* sizes and iteration caps of the equivalence property (spec section 8),  *)
(* a grid size that is no power of two, and the cells of the grid's first  *)
(* MaxCellX columns and MaxCellY rows.                                     *)
(***************************************************************************)
EquivDims == {1, 8, 64}
CellDims == EquivDims \cup {3}
EquivIters == {0, 1, 16, 255}
MaxCellX == 19
MaxCellY == 4

Min(a, b) == IF a < b THEN a ELSE b

CellInit ==
    /\ width \in CellDims
    /\ height \in CellDims
    /\ maxIter \in EquivIters
    /\ x \in 0..(Min(width, MaxCellX) - 1)
    /\ y \in 0..(Min(height, MaxCellY) - 1)
    /\ cellPc = "cpu"
    /\ cpuCount = None
    /\ gpuCount = None
    /\ coarseCount = None
    /\ CpuOff /\ GpuOff /\ DrawOff /\ AppOff
    /\ pc = "off" /\ resultData = NoData

\* one pass through the body of calculateMandelbrotCPU's loops, for cell (x, y)
CellCpu ==
    /\ cellPc = "cpu"
    /\ cpuCount' = CpuCount(x, y, width, height, maxIter)
    /\ cellPc' = "gpu"
    /\ UNCHANGED <<paramVars, drawVars, appVars, x, y, gpuCount, coarseCount, cpuVars, gpuVars, pc,
                   resultData>>

\* the shader invocation with global_invocation_id (x, y)
CellGpu ==
    /\ cellPc = "gpu"
    /\ LET gid == [x |-> x, y |-> y]
           params == Params(width, height, maxIter)
       IN  gpuCount' = IF ShaderReturnsEarly(gid, params) THEN None
                       ELSE ShaderCount(gid, params)
    /\ cellPc' = "done"
    /\ UNCHANGED <<paramVars, drawVars, appVars, x, y, cpuCount, coarseCount, cpuVars, gpuVars, pc,
                   resultData>>

CellNext == CellCpu \/ CellGpu

SpecCell == CellInit /\ [][CellNext]_vars

(***************************************************************************)
(* SpecPoint: both evaluators applied to the cells around the sample point *)
(* c = 0, which lies at x = 3/4 width, y = 1/2 height: grids whose width   *)
(* is a multiple of 4 and whose height is even (256 x 256 among them), and *)
(* the cells within MaxOffset of that point.                               *)
(***************************************************************************)
PointWidths == {4, 8, 256}
PointHeights == {2, 8, 256}
MaxOffset == 1

Near(centre, size) ==
    {n \in (centre - MaxOffset)..(centre + MaxOffset) : 0 <= n /\ n < size}

PointInit ==
    /\ width \in PointWidths
    /\ height \in PointHeights
    /\ maxIter \in EquivIters
    /\ x \in Near((3 * width) \div 4, width)
    /\ y \in Near(height \div 2, height)
    /\ cellPc = "cpu"
    /\ cpuCount = None
    /\ gpuCount = None
    /\ coarseCount = None
    /\ CpuOff /\ GpuOff /\ DrawOff /\ AppOff
    /\ pc = "off" /\ resultData = NoData

SpecPoint == PointInit /\ [][CellNext]_vars

(***************************************************************************)
(* SpecScale: the CPU evaluator applied to cell (x, y) of a width x height *)
(* grid and then to cell (2x, 2y) of the grid of twice the width and       *)
(* height, for grid sizes that are and are not powers of two and the cells *)
(* of the first MaxScaleCell columns and rows.                             *)
(***************************************************************************)
ScaleDims == {1, 3, 8, 128}
MaxScaleCell == 4

ScaleInit ==
    /\ width \in ScaleDims
    /\ height \in ScaleDims
    /\ maxIter \in EquivIters
    /\ x \in 0..(Min(width, MaxScaleCell) - 1)
    /\ y \in 0..(Min(height, MaxScaleCell) - 1)
    /\ cellPc = "coarse"
    /\ cpuCount = None
    /\ gpuCount = None
    /\ coarseCount = None
    /\ CpuOff /\ GpuOff /\ DrawOff /\ AppOff
    /\ pc = "off" /\ resultData = NoData

\* one pass through the body of calculateMandelbrotCPU's loops, for cell (x, y)
\* of the coarse grid
ScaleCoarse ==
    /\ cellPc = "coarse"
    /\ coarseCount' = CpuCount(x, y, width, height, maxIter)
    /\ cellPc' = "fine"
    /\ UNCHANGED <<paramVars, drawVars, appVars, x, y, cpuCount, gpuCount, cpuVars, gpuVars, pc,
                   resultData>>

\* ... and for cell (2x, 2y) of the grid of twice the width and height
ScaleFine ==
    /\ cellPc = "fine"
    /\ width' = 2 * width /\ height' = 2 * height
    /\ x' = 2 * x /\ y' = 2 * y
    /\ cpuCount' = CpuCount(x', y', width', height', maxIter)
    /\ cellPc' = "scaled"
    /\ UNCHANGED <<maxIter, drawVars, appVars, gpuCount, coarseCount, cpuVars, gpuVars, pc,
                   resultData>>

ScaleNext == ScaleCoarse \/ ScaleFine

SpecScale == ScaleInit /\ [][ScaleNext]_vars

(***************************************************************************)
(* calculateMandelbrotCPU, statement by statement.                         *)
(***************************************************************************)
\* const data = new Uint32Array(width * height);  for (let y = 0; ...
\* (a typed array of negative length is a RangeError, which leaves the function)
CpuAlloc ==
    /\ cpuPc = "alloc"
    /\ IF width * height < 0
       THEN data' = data /\ y' = y /\ cpuPc' = "throw"
       ELSE /\ data' = [k \in 0..(width * height - 1) |-> 0]
            /\ y' = 0
            /\ cpuPc' = "for_y"
    /\ UNCHANGED <<paramVars, drawVars, appVars, x, cellVars, i, zx, zy, cx, cy, visits, gpuVars, pc, resultData>>

\* for (...; y < height; ...) { for (let x = 0; ...
CpuForY ==
    /\ cpuPc = "for_y"
    /\ IF y < height
       THEN x' = 0 /\ cpuPc' = "for_x"
       ELSE x' = x /\ cpuPc' = "return"
    /\ UNCHANGED <<paramVars, drawVars, appVars, y, cellVars, i, zx, zy, cx, cy, data, visits, gpuVars, pc,
                   resultData>>

\* for (...; x < width; ...) { const cx = ...; const cy = ...; let zx = 0.0; ...
\* and, when the row is finished, y++
CpuForX ==
    /\ cpuPc = "for_x"
    /\ IF x < width
       THEN /\ cx' = CpuCx(x, width)
            /\ cy' = CpuCy(y, height)
            /\ zx' = FZero /\ zy' = FZero /\ i' = 0
            /\ cpuPc' = "while"
            /\ y' = y
       ELSE /\ y' = y + 1
            /\ cpuPc' = "for_y"
            /\ UNCHANGED <<i, zx, zy, cx, cy>>
    /\ UNCHANGED <<paramVars, drawVars, appVars, x, cellVars, data, visits, gpuVars, pc, resultData>>

\* while (...) { ... i++; }: one test of the condition, and the body if it holds
CpuWhile ==
    /\ cpuPc = "while"
    /\ IF CpuCond(i, maxIter, zx, zy)
       THEN /\ zx' = CpuTempZx(zx, zy, cx)
            /\ zy' = CpuNextZy(zx, zy, cy)
            /\ i' = i + 1
            /\ cpuPc' = "while"
       ELSE /\ cpuPc' = "store"
            /\ UNCHANGED <<i, zx, zy>>
    /\ UNCHANGED <<paramVars, drawVars, appVars, x, y, cellVars, cx, cy, data, visits, gpuVars, pc, resultData>>

\* data[y * width + x] = i;  x++
CpuStore ==
    /\ cpuPc = "store"
    /\ data' = [data EXCEPT ![CpuIndex(x, y, width)] = i]
    /\ visits' = Append(visits, <<x, y>>)
    /\ x' = x + 1
    /\ cpuPc' = "for_x"
    /\ UNCHANGED <<paramVars, drawVars, appVars, y, cellVars, i, zx, zy, cx, cy, gpuVars, pc, resultData>>

CpuNext == CpuAlloc \/ CpuForY \/ CpuForX \/ CpuWhile \/ CpuStore

(***************************************************************************)
(* handleRun, the part that runs an evaluator (inside the try block).      *)
(***************************************************************************)
\* resultData = calculateMandelbrotCPU(width, height, MAX_ITERATIONS): the call
RunCpuCall ==
    /\ pc = "cpu_call"
    /\ cpuPc = "off"
    /\ cpuPc' = "alloc"
    /\ pc' = "cpu_wait"
    /\ UNCHANGED <<paramVars, drawVars, appVars, x, y, cellVars, i, zx, zy, cx, cy, data, visits, gpuVars,
                   resultData>>

\* ... and the return
RunCpuReturn ==
    /\ pc = "cpu_wait"
    /\ cpuPc = "return"
    /\ resultData' = data
    /\ cpuPc' = "off"
    /\ pc' = "computed"
    /\ UNCHANGED <<paramVars, drawVars, appVars, x, y, cellVars, i, zx, zy, cx, cy, data, visits, gpuVars>>

\* device.createBuffer (output, staging, params) and queue.writeBuffer
GpuCreateBuffers ==
    /\ pc = "gpu_buffers"
    /\ device = "live"
    /\ output' = ZeroBuffer(width * height)
    /\ staging' = ZeroBuffer(width * height)
    /\ uniform' = Params(width, height, maxIter)
    /\ pc' = "gpu_encode"
    /\ UNCHANGED <<paramVars, drawVars, appVars, x, y, cellVars, cpuVars, device, mapState, queue, dispatched,
                   ran, resultData>>

\* beginComputePass ... dispatchWorkgroups ... end; copyBufferToBuffer;
\* device.queue.submit; stagingBuffer.mapAsync(READ)
GpuSubmit ==
    /\ pc = "gpu_encode"
    /\ dispatched' = DispatchSize(width, height)
    /\ queue' = <<"pass", "copy">>
    /\ mapState' = "pending"
    /\ pc' = "await_map"
    /\ UNCHANGED <<paramVars, drawVars, appVars, x, y, cellVars, cpuVars, device, uniform, output, staging, ran,
                   resultData>>

\* The device runs one invocation of the pass.  The invocations run in any
\* order.  An invocation that returns at the bounds guard leaves no trace, so
\* only those that store are recorded in `ran`.
GpuInvoke(gid) ==
    /\ queue # <<>> /\ Head(queue) = "pass"
    /\ gid \notin ran
    /\ output' = ShaderMain(gid, uniform, output)
    /\ ran' = IF ShaderReturnsEarly(gid, uniform) THEN ran ELSE ran \cup {gid}
    /\ UNCHANGED <<paramVars, drawVars, appVars, x, y, cellVars, cpuVars, device, uniform, staging, mapState,
                   queue, dispatched, pc, resultData>>

\* The pass is complete when no invocation has work left.
GpuPassEnd ==
    /\ queue # <<>> /\ Head(queue) = "pass"
    /\ {gid \in Invocations(dispatched) \ ran : ~ShaderReturnsEarly(gid, uniform)} = {}
    /\ queue' = Tail(queue)
    /\ UNCHANGED <<paramVars, drawVars, appVars, x, y, cellVars, cpuVars, device, uniform, output, staging,
                   mapState, dispatched, ran, pc, resultData>>

\* The device runs copyBufferToBuffer(outputBuffer, 0, stagingBuffer, 0, size).
GpuCopy ==
    /\ queue # <<>> /\ Head(queue) = "copy"
    /\ staging' = output
    /\ queue' = Tail(queue)
    /\ UNCHANGED <<paramVars, drawVars, appVars, x, y, cellVars, cpuVars, device, uniform, output, mapState,
                   dispatched, ran, pc, resultData>>

\* mapAsync's promise resolves once the work submitted before it is done.
GpuMapResolve ==
    /\ mapState = "pending"
    /\ queue = <<>>
    /\ mapState' = "mapped"
    /\ UNCHANGED <<paramVars, drawVars, appVars, x, y, cellVars, cpuVars, device, uniform, output, staging,
                   queue, dispatched, ran, pc, resultData>>

\* a caller that does not wait for the promise
MapNotAwaited == mapState \in {"pending", "mapped"}

\* await stagingBuffer.mapAsync(...): handleRun goes on when the promise has
\* resolved
MapAwaited == mapState = "mapped"

\* getMappedRange; resultData = new Uint32Array(arrayBuffer.slice(0)); unmap
GpuReadBack ==
    /\ pc = "await_map"
    /\ MapAwaited
    /\ resultData' = [k \in DOMAIN staging |-> staging[k].v]
    /\ mapState' = "unmapped"
    /\ pc' = "gpu_destroy"
    /\ UNCHANGED <<paramVars, drawVars, appVars, x, y, cellVars, cpuVars, device, uniform, output, staging,
                   queue, dispatched, ran>>

\* device.destroy()
GpuDestroy ==
    /\ pc = "gpu_destroy"
    /\ device' = "destroyed"
    /\ pc' = "computed"
    /\ UNCHANGED <<paramVars, drawVars, appVars, x, y, cellVars, cpuVars, uniform, output, staging, mapState,
                   queue, dispatched, ran, resultData>>

GpuNext ==
    \/ GpuCreateBuffers
    \/ GpuSubmit
    \/ \E gid \in Invocations(dispatched) : GpuInvoke(gid)
    \/ GpuPassEnd
    \/ GpuCopy
    \/ GpuMapResolve
    \/ GpuReadBack
    \/ GpuDestroy

(***************************************************************************)
(* SpecEval: one evaluation, by either evaluator, of a small grid with a   *)
(* small iteration cap: handleRun's try block entered with a device        *)
(* already acquired.  The grids are those of up to MaxEvalDim columns and   *)
(* rows, and one row that is one cell wider than a workgroup, so that the  *)
(* dispatch has a second, partly filled workgroup.                         *)
(***************************************************************************)
MaxEvalDim == 2
MaxEvalIter == 5

EvalGrids ==
    {<<w, h>> : w \in 1..MaxEvalDim, h \in 1..MaxEvalDim} \cup {<<WorkgroupSize + 1, 1>>}

EvalInit ==
    /\ \E g \in EvalGrids : width = g[1] /\ height = g[2]
    /\ maxIter \in 0..MaxEvalIter
    /\ x = 0 /\ y = 0
    /\ CellOff /\ CpuOff /\ DrawOff /\ AppOff
    /\ \/ pc = "cpu_call" /\ GpuOff
       \/ /\ pc = "gpu_buffers"
          /\ device = "live" /\ uniform = NoParams /\ output = <<>> /\ staging = <<>>
          /\ mapState = "unmapped" /\ queue = <<>> /\ dispatched = NoDispatch /\ ran = {}
    /\ resultData = NoData

\* resultData = calculateMandelbrotCPU(width, height, MAX_ITERATIONS)
CpuRunNext == RunCpuCall \/ CpuNext \/ RunCpuReturn

EvalNext == CpuRunNext \/ GpuNext

SpecEval == EvalInit /\ [][EvalNext]_vars

(***************************************************************************)
(* SpecCpu: the CPU evaluations of SpecEval alone.  The call is sequential *)
(* code on the one JavaScript thread: once begun it keeps running.         *)
(***************************************************************************)
CpuRunInit == EvalInit /\ pc = "cpu_call"

\* WF_vars(CpuForX \/ CpuWhile) with its ENABLED written out: at "for_x" and at
\* "while" the step is always possible and always changes cpuPc, i or y.
CpuArithFair ==
    []<>(cpuPc \notin {"for_x", "while"}) \/ []<><<CpuForX \/ CpuWhile>>_vars

SpecCpu ==
    /\ CpuRunInit /\ [][CpuRunNext]_vars
    /\ WF_vars(RunCpuCall \/ CpuAlloc \/ CpuForY \/ CpuStore \/ RunCpuReturn)
    /\ CpuArithFair

(***************************************************************************)
(* SpecArgs: calculateMandelbrotCPU called with any integers for width and *)
(* height, the non-positive ones included (handleRun itself only passes    *)
(* the resolution of the slider).                                          *)
(***************************************************************************)
ArgDims == (0 - 1)..MaxEvalDim

ArgsInit ==
    /\ width \in ArgDims
    /\ height \in ArgDims
    /\ maxIter \in 0..MaxEvalIter
    /\ x = 0 /\ y = 0
    /\ CellOff /\ CpuOff /\ GpuOff /\ DrawOff /\ AppOff
    /\ pc = "cpu_call"
    /\ resultData = NoData

SpecArgs == ArgsInit /\ [][CpuRunNext]_vars

(***************************************************************************)
(* SpecDraw: drawMandelbrot's loop body on one element of the data array,  *)
(* for the counts 0 .. MaxCount and the caps 1 and MAX_ITERATIONS.         *)
(***************************************************************************)
MaxCount == 256

DrawCaps == {1, MAX_ITERATIONS}

DrawInit ==
    /\ maxIter \in DrawCaps
    /\ iter \in 0..MaxCount
    /\ drawPc = "read" /\ hue = FZero
    /\ assigned = <<FZero, FZero, FZero>> /\ pixel = NoPixel
    /\ width = 1 /\ height = 1 /\ x = 0 /\ y = 0
    /\ CellOff /\ CpuOff /\ GpuOff /\ AppOff
    /\ pc = "off" /\ resultData = NoData

\* const iter = data[i]; if (iter >= MAX_ITERATIONS) {...} else {...};
\* imageData.data[pixelIndex + 3] = 255
DrawPixel ==
    /\ drawPc = "read"
    /\ hue' = IF DrawIsInside(iter, maxIter) THEN hue ELSE DrawHue(iter, maxIter)
    /\ assigned' = DrawAssigned(iter, maxIter)
    /\ pixel' = StorePixel(assigned')
    /\ drawPc' = "done"
    /\ UNCHANGED <<paramVars, appVars, iter, x, y, cellVars, cpuVars, gpuVars, pc, resultData>>

SpecDraw == DrawInit /\ [][DrawPixel]_vars

(***************************************************************************)
(* Spec: the App component.  The events are the clicks on the two buttons, *)
(* the slider, and the resolutions of the promises handleRun awaits.       *)
(* JavaScript runs a handler to its end or to its next await, so an action *)
(* is a handler from one await to the next.  The slider's values are       *)
(* scaled down to 1 .. MaxRes: a run computes a resolution x resolution    *)
(* grid with the cap MAX_ITERATIONS.  The time of a result is not          *)
(* modelled.  The buttons and the slider are disabled while isLoading.     *)
(***************************************************************************)
MaxRes == 2
MaxBlocked == 1

Resolutions == 1..MaxRes

\* calculateMandelbrotCPU(width, height, max_iter): the array it returns,
\* every element computed by the time the call returns
CpuData(w, h, max_iter) ==
    [k \in 0..(w * h - 1) |-> CpuCount(k % w, k \div w, w, h, max_iter)]

\* calculateMandelbrotCPU(width, height, MAX_ITERATIONS) with width = height =
\* resolution: the call is a pure function of the resolution, tabulated here
\* for every resolution
CpuResult == [r \in Resolutions |-> CpuData(r, r, MAX_ITERATIONS)]

\* the n-th invocation of a dispatch of d workgroups, counting row by row
InvocationAt(n, d) ==
    [x |-> n % (d.x * WorkgroupSize), y |-> n \div (d.x * WorkgroupSize)]

\* The compute pass: main run by the invocations lo .. hi of the dispatch, one
\* after the other, the first half before the second.  (Under SpecEval the
\* invocations run in every order, and the buffer they leave is the same.)
RECURSIVE RunInvocations(_, _, _, _, _)
RunInvocations(lo, hi, d, params, out) ==
    IF lo > hi THEN out
    ELSE IF lo = hi THEN ShaderMain(InvocationAt(lo, d), params, out)
    ELSE LET mid == (lo + hi) \div 2
         IN  CHOOSE r \in {RunInvocations(mid + 1, hi, d, params, o) :
                              o \in {RunInvocations(lo, mid, d, params, out)}} : TRUE

\* the compute pass of a dispatch of d workgroups
RunPass(d, params, out) ==
    RunInvocations(0, Cardinality(Invocations(d)) - 1, d, params, out)

\* setResults(prev => ({ ...prev, [type]: null })) left out
KeepResult(prev, type) == prev

\* setResults(prev => ({ ...prev, [type]: null }))
ResetResult(prev, type) == [prev EXCEPT ![type] = NoResult]

\* setResults(prev => ({ ...prev, [type]: { method, time, res: resolution } }))
SetResult(prev, type, method) ==
    [prev EXCEPT ![type] = [method |-> method, res |-> resolution]]

\* ctx.fillRect(...); canvas.width = width; canvas.height = height
ClearCanvas(type) == [canvas EXCEPT ![type] = [size |-> resolution, image |-> "cleared"]]

\* drawMandelbrot(renderCtx, width, height, resultData) on a canvas already
\* cleared and resized
DrawCanvas(type) == [canvas EXCEPT ![type] = [size |-> resolution, image |-> "mandelbrot"]]

AppInit ==
    /\ isLoading = FALSE
    /\ resolution \in Resolutions
    /\ results = NoResults
    /\ canvas = [cpu |-> NoCanvas, gpu |-> NoCanvas]
    /\ hasGpu \in BOOLEAN
    /\ runType = "none" /\ error = "none" /\ alert = "none" /\ trace = <<>>
    /\ inFlight = 0 /\ blocked = 0
    /\ width = resolution /\ height = resolution /\ maxIter = MAX_ITERATIONS
    /\ x = 0 /\ y = 0
    /\ CellOff /\ CpuOff /\ GpuOff /\ DrawOff
    /\ pc = "idle" /\ resultData = NoData

\* (mutant of RunBegins: no guard on isLoading)
RunBeginsUnguarded(type) ==
    /\ runType' = type
    /\ width' = resolution /\ height' = resolution
    /\ blocked' = 0
    /\ UNCHANGED <<maxIter, x, y, cellVars, cpuVars, drawVars, resolution, hasGpu>>

\* if (isLoading || !canvas) return; passed (the canvases are always mounted),
\* and the locals of the call as it begins
RunBegins(type) ==
    /\ ~isLoading
    /\ runType' = type
    /\ blocked' = 0
    /\ width' = resolution /\ height' = resolution
    /\ UNCHANGED <<maxIter, x, y, cellVars, cpuVars, drawVars, resolution, hasGpu>>

\* handleRun('cpu'), which has no await: from the click to the finally block
RunCpu ==
    /\ RunBegins("cpu")
    /\ resultData' = CpuResult[resolution]
    /\ canvas' = DrawCanvas("cpu")
    /\ results' = SetResult(ResetResult(results, "cpu"), "cpu", "CPU")
    /\ isLoading' = FALSE
    /\ error' = "none" /\ alert' = "none"
    /\ trace' = <<"calculateMandelbrotCPU", "drawMandelbrot", "setResults">>
    /\ inFlight' = inFlight
    /\ pc' = "idle"
    /\ device' = "none" /\ uniform' = NoParams /\ output' = <<>> /\ staging' = <<>>
    /\ mapState' = "unmapped" /\ queue' = <<>> /\ dispatched' = NoDispatch /\ ran' = {}

\* handleRun('gpu') where navigator.gpu is missing: the throw, the catch block
\* and the finally block
RunGpuUnsupported ==
    /\ RunBegins("gpu")
    /\ ~hasGpu
    /\ results' = ResetResult(results, "gpu")
    /\ canvas' = ClearCanvas("gpu")
    /\ error' = "no_webgpu" /\ alert' = "gpu"
    /\ trace' = <<"alert">>
    /\ inFlight' = inFlight
    /\ isLoading' = FALSE
    /\ pc' = "idle"
    /\ resultData' = NoData
    /\ device' = "none" /\ uniform' = NoParams /\ output' = <<>> /\ staging' = <<>>
    /\ mapState' = "unmapped" /\ queue' = <<>> /\ dispatched' = NoDispatch /\ ran' = {}

\* handleRun('gpu') up to await navigator.gpu.requestAdapter()
RunGpuStart ==
    /\ RunBegins("gpu")
    /\ hasGpu
    /\ results' = ResetResult(results, "gpu")
    /\ canvas' = ClearCanvas("gpu")
    /\ error' = "none" /\ alert' = "none"
    /\ trace' = <<"requestAdapter">>
    /\ inFlight' = inFlight + 1
    /\ isLoading' = TRUE
    /\ pc' = "await_adapter"
    /\ resultData' = NoData
    /\ device' = "none" /\ uniform' = NoParams /\ output' = <<>> /\ staging' = <<>>
    /\ mapState' = "unmapped" /\ queue' = <<>> /\ dispatched' = NoDispatch /\ ran' = {}

\* (mutant of RunFails: a catch block that starts the GPU path again instead of
\* reporting)
RunRetries(err) ==
    /\ error' = err /\ alert' = alert
    /\ trace' = Append(trace, "requestAdapter")
    /\ inFlight' = inFlight /\ blocked' = blocked
    /\ isLoading' = isLoading
    /\ pc' = "await_adapter"
    /\ UNCHANGED <<paramVars, x, y, cellVars, cpuVars, drawVars, resolution, results, canvas,
                   hasGpu, runType, resultData>>

\* (mutant of RunFails: the catch block without the finally block)
RunFailsNoFinally(err) ==
    /\ error' = err /\ alert' = runType
    /\ trace' = Append(trace, "alert")
    /\ inFlight' = inFlight - 1 /\ blocked' = 0
    /\ isLoading' = isLoading
    /\ pc' = "idle"
    /\ UNCHANGED <<paramVars, x, y, cellVars, cpuVars, drawVars, resolution, results, canvas,
                   hasGpu, runType, resultData>>

\* the catch block and the finally block, after an await
RunFails(err) ==
    /\ error' = err /\ alert' = runType
    /\ trace' = Append(trace, "alert")
    /\ inFlight' = inFlight - 1 /\ blocked' = 0
    /\ isLoading' = FALSE
    /\ pc' = "idle"
    /\ UNCHANGED <<paramVars, x, y, cellVars, cpuVars, drawVars, resolution, results, canvas,
                   hasGpu, runType, resultData>>

\* requestAdapter resolves with null: if (!adapter) throw
RunGpuNoAdapter ==
    /\ pc = "await_adapter"
    /\ RunFails("no_adapter")
    /\ UNCHANGED gpuVars

\* requestAdapter resolves with an adapter: up to await adapter.requestDevice()
RunGpuAdapter ==
    /\ pc = "await_adapter"
    /\ pc' = "await_device"
    /\ trace' = Append(trace, "requestDevice")
    /\ UNCHANGED <<paramVars, x, y, cellVars, cpuVars, drawVars, isLoading, resolution, results,
                   canvas, hasGpu, runType, error, alert, inFlight, blocked, gpuVars, resultData>>

\* requestDevice rejects
RunGpuNoDevice ==
    /\ pc = "await_device"
    /\ RunFails("no_device")
    /\ UNCHANGED gpuVars

\* requestDevice resolves: the buffers, the pipeline, the pass, the copy, the
\* submit, up to await stagingBuffer.mapAsync(READ)
RunGpuSubmit ==
    /\ pc = "await_device"
    /\ device' = "live"
    /\ output' = ZeroBuffer(width * height)
    /\ staging' = ZeroBuffer(width * height)
    /\ uniform' = Params(width, height, MAX_ITERATIONS)
    /\ dispatched' = DispatchSize(width, height)
    /\ queue' = <<"pass", "copy">>
    /\ mapState' = "pending"
    /\ pc' = "await_map"
    /\ trace' = trace \o <<"submit", "mapAsync">>
    /\ UNCHANGED <<paramVars, x, y, cellVars, cpuVars, drawVars, isLoading, resolution, results,
                   canvas, hasGpu, runType, error, alert, inFlight, blocked, ran, resultData>>

\* the device executes the queue, the pass and then the copy, and the promise
\* of mapAsync resolves
DeviceExecutes ==
    /\ queue = <<"pass", "copy">>
    /\ mapState = "pending"
    /\ output' = RunPass(dispatched, uniform, output)
    /\ staging' = output'
    /\ ran' = {gid \in Invocations(dispatched) : ~ShaderReturnsEarly(gid, uniform)}
    /\ queue' = <<>>
    /\ mapState' = "mapped"
    /\ UNCHANGED <<paramVars, x, y, cellVars, cpuVars, drawVars, appVars, device, uniform,
                   dispatched, pc, resultData>>

\* the invocations that store to the first n elements of the output buffer
StoresBelow(n, d, params) ==
    {gid \in Invocations(d) : ~ShaderReturnsEarly(gid, params) /\ ShaderIndex(gid, params) < n}

\* the output buffer when the pass has stored the first n elements and no other
PartialPass(n, full, out) == [k \in DOMAIN out |-> IF k < n THEN full[k] ELSE out[k]]

\* The device is lost with the work pending: the pass has stored some of the
\* elements (none, the first n, or all of them), the copy has not run, and the
\* promise of mapAsync rejects.
DeviceLost ==
    /\ queue = <<"pass", "copy">>
    /\ mapState = "pending"
    /\ \E full \in {RunPass(dispatched, uniform, output)}, n \in 0..(width * height) :
           /\ output' = PartialPass(n, full, output)
           /\ ran' = StoresBelow(n, dispatched, uniform)
    /\ device' = "lost"
    /\ queue' = <<>>
    /\ mapState' = "failed"
    /\ UNCHANGED <<paramVars, x, y, cellVars, cpuVars, drawVars, appVars, uniform,
                   staging, dispatched, pc, resultData>>

\* The promise of mapAsync rejects with the device alive: the staging buffer is
\* invalid (its allocation failed), so the submitted commands, which copy into
\* it, are invalid as well and none of them runs.
MapRejects ==
    /\ queue = <<"pass", "copy">>
    /\ mapState = "pending"
    /\ queue' = <<>>
    /\ mapState' = "failed"
    /\ UNCHANGED <<paramVars, x, y, cellVars, cpuVars, drawVars, appVars, device, uniform, output,
                   staging, dispatched, ran, pc, resultData>>

\* mapAsync rejects: the catch block and the finally block
RunGpuMapFails ==
    /\ pc = "await_map"
    /\ mapState = "failed"
    /\ RunFails("map_failed")
    /\ UNCHANGED gpuVars

\* mapAsync resolves: the read back, device.destroy(), drawMandelbrot,
\* setResults and the finally block
RunGpuFinish ==
    /\ pc = "await_map"
    /\ MapAwaited
    /\ resultData' = [k \in DOMAIN staging |-> staging[k].v]
    /\ mapState' = "unmapped"
    /\ device' = "destroyed"
    /\ canvas' = DrawCanvas("gpu")
    /\ results' = SetResult(results, "gpu", "GPU")
    /\ trace' = trace \o <<"getMappedRange", "unmap", "destroy", "drawMandelbrot", "setResults">>
    /\ inFlight' = inFlight - 1 /\ blocked' = 0
    /\ isLoading' = FALSE
    /\ pc' = "idle"
    /\ UNCHANGED <<paramVars, x, y, cellVars, cpuVars, drawVars, resolution, hasGpu, runType,
                   error, alert, uniform, output, staging, queue, dispatched, ran>>

\* (mutant of SetResolution: the effect does not reset the results)
SetResolutionKeeps(newRes) ==
    /\ ~isLoading
    /\ newRes # resolution
    /\ resolution' = newRes
    /\ results' = results
    /\ canvas' = [t \in DOMAIN canvas |->
                    IF canvas[t] = NoCanvas THEN canvas[t]
                    ELSE [canvas[t] EXCEPT !.image = "cleared"]]
    /\ UNCHANGED <<paramVars, x, y, cellVars, cpuVars, drawVars, gpuVars, isLoading, hasGpu,
                   runType, error, alert, trace, inFlight, blocked, pc, resultData>>

\* handleSliderChange and the effect on resolution: clearCanvases and
\* setResults({ cpu: null, gpu: null })
SetResolution(newRes) ==
    /\ ~isLoading
    /\ newRes # resolution
    /\ resolution' = newRes
    /\ results' = NoResults
    /\ canvas' = [t \in DOMAIN canvas |->
                    IF canvas[t] = NoCanvas THEN canvas[t]
                    ELSE [canvas[t] EXCEPT !.image = "cleared"]]
    /\ UNCHANGED <<paramVars, x, y, cellVars, cpuVars, drawVars, gpuVars, isLoading, hasGpu,
                   runType, error, alert, trace, inFlight, blocked, pc, resultData>>

\* handleRun(type) called while isLoading: if (isLoading || !canvas) return
RunBlocked(type) ==
    /\ isLoading
    /\ blocked < MaxBlocked
    /\ blocked' = blocked + 1
    /\ UNCHANGED <<paramVars, x, y, cellVars, cpuVars, drawVars, gpuVars, isLoading, resolution,
                   results, canvas, hasGpu, runType, error, alert, trace, inFlight, pc, resultData>>

Next ==
    \/ RunCpu
    \/ \E type \in {"cpu", "gpu"} : RunBlocked(type)
    \/ RunGpuUnsupported
    \/ RunGpuStart
    \/ RunGpuNoAdapter
    \/ RunGpuAdapter
    \/ RunGpuNoDevice
    \/ RunGpuSubmit
    \/ DeviceExecutes
    \/ DeviceLost
    \/ MapRejects
    \/ RunGpuMapFails
    \/ RunGpuFinish
    \/ \E newRes \in Resolutions : SetResolution(newRes)

Spec == AppInit /\ [][Next]_vars

(***************************************************************************)
(* SpecLive: Spec with the scheduling of the browser.  Every promise that  *)
(* handleRun awaits settles (requestAdapter, requestDevice and mapAsync    *)
(* each resolve or reject), the device works off what was submitted to it  *)
(* or is lost, and the continuation of a settled await is run.             *)
(***************************************************************************)
\* WF_vars(DeviceExecutes \/ DeviceLost \/ MapRejects) written as its effect:
\* with the commands queued and the map pending each of the three is possible,
\* and nothing else ends that condition, so the condition does not last.
DeviceFair == []<>~(queue = <<"pass", "copy">> /\ mapState = "pending")

SpecLive ==
    /\ AppInit /\ [][Next]_vars
    /\ WF_vars(RunGpuNoAdapter \/ RunGpuAdapter)
    /\ WF_vars(RunGpuNoDevice \/ RunGpuSubmit)
    /\ DeviceFair
    /\ WF_vars(RunGpuMapFails \/ RunGpuFinish)

(***************************************************************************)
(* Claims checked under SpecCell.                                          *)
(***************************************************************************)
\* C1 (as claimed): for width, height in {1, 8, 64} and maxIter in
\* {0, 1, 16, 255} the count the compute shader stores for a cell equals the
\* count calculateMandelbrotCPU stores for it.
C1_EvaluatorsAgree ==
    (/\ cellPc = "done"
     /\ width \in EquivDims /\ height \in EquivDims /\ maxIter \in EquivIters)
    => cpuCount = gpuCount

\* C2: every count an evaluator stores is an integer in [0, maxIter].
C2_CountWithinCap ==
    /\ cellPc \in {"gpu", "done"} => cpuCount \in 0..maxIter
    /\ cellPc = "done" => gpuCount \in 0..maxIter

\* C2 witness: both evaluators have stored the count of a cell whose iteration
\* ran up to the cap of 255.
C2_Witness ==
    /\ cellPc = "done" /\ maxIter = 255
    /\ cpuCount = 255 /\ gpuCount = 255

\* C3: with maxIter = 0 both evaluators store 0, whatever the grid size.
C3_ZeroCap ==
    (cellPc = "done" /\ maxIter = 0) => (cpuCount = 0 /\ gpuCount = 0)

\* C3 witness: a cell of a 64 x 3 grid evaluated by both with maxIter = 0.
C3_Witness ==
    cellPc = "done" /\ maxIter = 0 /\ width = 64 /\ height = 3 /\ x > 0 /\ y > 0


(***************************************************************************)
(* Claims checked under SpecCpu and SpecEval.                              *)
(***************************************************************************)
\* the cells of a w x h grid as the nested for loops meet them
RowMajor(w, h) == [k \in 1..(w * h) |-> <<(k - 1) % w, (k - 1) \div w>>]

IsPrefix(s, t) == Len(s) <= Len(t) /\ \A k \in 1..Len(s) : s[k] = t[k]

\* the shader's bounds guard passed
InRange(gid) == gid.x < width /\ gid.y < height

\* the compute pass was submitted and the queue is past it
PassDone == dispatched # NoDispatch /\ (queue = <<>> \/ Head(queue) # "pass")

\* handleRun has read the staging buffer
GpuWasRead == device # "none" /\ pc \in {"gpu_destroy", "computed"}

\* C4: calculateMandelbrotCPU terminates: the inner loop of a cell runs at most
\* maxIter iterations, the cells are stored one by one in row-major order, each
\* once, and a call that has started returns with all of them stored.
C4_CpuTerminates ==
    /\ [](cpuPc # "off" => i <= maxIter)
    /\ [](IsPrefix(visits, RowMajor(width, height)))
    /\ [](cpuPc = "return" => visits = RowMajor(width, height))
    /\ (cpuPc = "alloc") ~> (pc = "computed" /\ visits = RowMajor(width, height))

\* C4 witness: the scan of a grid of several rows and columns has returned, and
\* the loop of one of its cells ran up to the cap.
C4_Witness ==
    /\ pc = "computed"
    /\ width > 1 /\ height > 1 /\ maxIter > 1
    /\ visits = RowMajor(width, height)
    /\ \E k \in DOMAIN resultData : resultData[k] = maxIter

\* C5: in the dispatch, only invocations inside the grid store, each at index
\* y * width + x, so no element has two writers; and when the pass is over,
\* whatever the order of the invocations, every element holds the count of its
\* own cell, stored by the one invocation of that cell.
C5_OneWriterPerCell ==
    /\ \A k \in DOMAIN output :
          /\ \A gid \in output[k].by : InRange(gid) /\ k = gid.y * width + gid.x
          /\ Cardinality(output[k].by) <= 1
    /\ PassDone =>
          \A xx \in 0..(width - 1), yy \in 0..(height - 1) :
             LET gid == [x |-> xx, y |-> yy]
             IN  /\ gid \in Invocations(dispatched)
                 /\ output[yy * width + xx] =
                       [v |-> ShaderCount(gid, uniform), by |-> {gid}]

\* C5 witness: the pass over a row one cell wider than a workgroup is over; two
\* workgroups ran, the second with one invocation inside the grid.
C5_Witness ==
    /\ PassDone
    /\ width = WorkgroupSize + 1 /\ dispatched.x = 2
    /\ Cardinality(ran) = width * height
    /\ Cardinality(Invocations(dispatched)) > Cardinality(ran)
    /\ output[WorkgroupSize].by = {[x |-> WorkgroupSize, y |-> 0]}

\* C6: handleRun reads the staging buffer only when the pass was submitted, the
\* queue has executed the pass and the copy, every element was written and
\* mapAsync has resolved; what it has read has no unwritten element.
C6_ReadAfterBarrier ==
    /\ [][(pc = "await_map" /\ pc' = "gpu_destroy") =>
             /\ dispatched = DispatchSize(width, height)
             /\ queue = <<>>
             /\ mapState = "mapped"
             /\ \A k \in 0..(width * height - 1) : staging[k].by # {}]_vars
    /\ [](GpuWasRead =>
             \A k \in 0..(width * height - 1) :
                staging[k].by # {} /\ resultData[k] = staging[k].v)

\* C6 witness: handleRun has read the staging buffer of a run over a grid of
\* several rows and columns, with a count other than the initial 0 in it.
C6_Witness ==
    /\ GpuWasRead /\ pc = "gpu_destroy"
    /\ width > 1 /\ height > 1
    /\ \E k \in DOMAIN resultData : resultData[k] > 0

\* C7: the result of either evaluator has exactly width * height elements, each
\* a natural number, the count of cell (x, y) at index y * width + x.
C7_RowMajorLayout ==
    pc = "computed" =>
       /\ DOMAIN resultData = 0..(width * height - 1)
       /\ \A k \in DOMAIN resultData : resultData[k] \in Nat
       /\ \A xx \in 0..(width - 1), yy \in 0..(height - 1) :
             resultData[yy * width + xx] =
                IF device = "none"
                THEN CpuCount(xx, yy, width, height, maxIter)
                ELSE ShaderCount([x |-> xx, y |-> yy], Params(width, height, maxIter))

\* C7 witness: a GPU result for a grid of two rows and two columns whose cells
\* (1, 0) and (0, 1) have different counts, so that their places matter.
C7_Witness ==
    /\ pc = "computed" /\ device = "destroyed"
    /\ width = 2 /\ height = 2
    /\ resultData[1] # resultData[2]


(***************************************************************************)
(* Claims checked under SpecDraw.                                          *)
(***************************************************************************)
\* a <= b
FLeq(a, b) == ~FLess(b, a)

\* C8: a count greater than or equal to the cap is drawn black: the pixel is
\* (0, 0, 0), opaque.
C8_InsideIsBlack ==
    (drawPc = "done" /\ iter >= maxIter) => pixel = <<0, 0, 0, 255>>

\* C8 witness: the count equal to the cap MAX_ITERATIONS has been drawn.
C8_Witness ==
    drawPc = "done" /\ iter = maxIter /\ maxIter = MAX_ITERATIONS /\ pixel[4] = 255

\* C9: for the caps 1 and 255 and a count in [0, cap], every number assigned to
\* a channel, and the byte stored for it, is within [0, 255]; for a count below
\* the cap the hue is within [0, 360) and the branch taken is the one sector
\* [60 (k - 1), 60 k) that holds the hue.
C9_ChannelsAndHueInRange ==
    (drawPc = "done" /\ maxIter \in {1, 255} /\ iter \in 0..maxIter) =>
       /\ \A k \in 1..3 :
             /\ FLeq(FZero, assigned[k]) /\ FLeq(assigned[k], FInt(255))
             /\ pixel[k] \in 0..255
       /\ iter < maxIter =>
             /\ FLeq(FZero, hue) /\ FLess(hue, FInt(360))
             /\ \E k \in 1..6 :
                   /\ DrawSector(hue) = k
                   /\ FLeq(FInt(60 * (k - 1)), hue) /\ FLess(hue, FInt(60 * k))
                   /\ \A j \in 1..6 :
                         (FLeq(FInt(60 * (j - 1)), hue) /\ FLess(hue, FInt(60 * j))) => j = k

\* C9 witness: the last count below the cap 255 has been drawn, in the sixth
\* sector, with a channel that is neither 0 nor 255.
C9_Witness ==
    /\ drawPc = "done" /\ maxIter = 255 /\ iter = 254
    /\ DrawSector(hue) = 6
    /\ \E k \in 1..3 : pixel[k] \in 1..254


(***************************************************************************)
(* Claims checked under Spec.                                              *)
(***************************************************************************)
\* C10: a GPU run that finds no navigator.gpu, or gets no adapter, has ended
\* with that error thrown, no buffer created, no device and nothing
\* dispatched, the alert shown, and results.gpu null.
C10_UnavailableFailsFast ==
    error \in {"no_webgpu", "no_adapter"} =>
       /\ runType = "gpu" /\ pc = "idle" /\ ~isLoading
       /\ device = "none"
       /\ output = <<>> /\ staging = <<>> /\ uniform = NoParams
       /\ dispatched = NoDispatch /\ queue = <<>> /\ ran = {}
       /\ alert = "gpu"
       /\ results.gpu = NoResult
       /\ resultData = NoData

\* C10 witness: a GPU run has failed for want of an adapter, after a CPU run
\* whose result is still on display.
C10_Witness ==
    /\ error = "no_adapter" /\ alert = "gpu"
    /\ results.cpu # NoResult /\ results.gpu = NoResult
    /\ canvas.gpu.image = "cleared"

(***************************************************************************)
(* Claims checked under SpecArgs.                                          *)
(***************************************************************************)
\* C11: an evaluation called with a non-positive width or height is rejected
\* before any work begins: it allocates no output array, computes no cell,
\* dispatches no GPU work and does not return a result.
C11_InvalidRejected ==
    (width <= 0 \/ height <= 0) =>
        /\ data = <<>> /\ visits = <<>>
        /\ cpuPc \notin {"for_y", "for_x", "while", "store", "return"}
        /\ pc # "computed"
        /\ dispatched = NoDispatch /\ queue = <<>>

(***************************************************************************)
(* Claims checked under Spec, continued.                                   *)
(***************************************************************************)
\* the elements of the output buffer that the pass has stored
Stored == {k \in DOMAIN output : output[k].by # {}}

\* how often the handleRun call under way (or the last one) has done e
Count(e) == Cardinality({k \in DOMAIN trace : trace[k] = e})

\* C12: a GPU dispatch that was submitted and has not completed, or has failed,
\* yields no output: while the run waits for it, and after it has failed, no
\* array has been read back, the GPU canvas shows nothing drawn from a result
\* and results.gpu is null; when it has failed the run has ended in the catch
\* block with the alert for the GPU, whatever part of the output buffer the
\* pass had written.
C12_FailedDispatchNoOutput ==
    /\ pc = "await_map" =>
           /\ Count("drawMandelbrot") = 0
           /\ resultData = NoData
           /\ results.gpu = NoResult
           /\ canvas.gpu.image = "cleared"
    /\ error = "map_failed" =>
           /\ runType = "gpu" /\ alert = "gpu"
           /\ pc = "idle" /\ ~isLoading
           /\ Count("drawMandelbrot") = 0 /\ Count("setResults") = 0
           /\ resultData = NoData
           /\ results.gpu = NoResult
           /\ canvas.gpu.image = "cleared"
           /\ \A k \in DOMAIN staging : staging[k].v = 0

\* C12 witness: the dispatch failed with a part of the output buffer written
\* (some elements, not all), and the run has ended.
C12_Witness ==
    /\ error = "map_failed" /\ pc = "idle"
    /\ Stored # {} /\ Stored # DOMAIN output
    /\ \E k \in Stored : output[k].v # 0

\* C13: no retry.  A handleRun('gpu') call submits at most one dispatch and never
\* calls the CPU evaluator; once it has failed it has shown exactly one alert,
\* as the last thing it did, and has ended; a call whose dispatch failed has
\* submitted once.
C13_NoRetry ==
    /\ runType = "gpu" =>
           /\ Count("submit") <= 1
           /\ Count("calculateMandelbrotCPU") = 0
           /\ Count("requestAdapter") <= 1 /\ Count("requestDevice") <= 1
    /\ error # "none" =>
           /\ runType = "gpu"
           /\ Count("alert") = 1 /\ trace[Len(trace)] = "alert"
           /\ pc = "idle" /\ ~isLoading
           /\ queue = <<>>
    /\ error = "map_failed" => Count("submit") = 1
    /\ error = "none" => Count("alert") = 0

\* C13 witness: a GPU run whose one dispatch failed has ended, with the CPU
\* result of an earlier run untouched.
C13_Witness ==
    /\ error = "map_failed" /\ pc = "idle"
    /\ trace = <<"requestAdapter", "requestDevice", "submit", "mapAsync", "alert">>
    /\ results.cpu # NoResult /\ results.gpu = NoResult

(***************************************************************************)
(* Claims checked under SpecPoint.                                         *)
(***************************************************************************)
\* the cell evaluated, as the shader sees it
PointGid == [x |-> x, y |-> y]
PointParams == Params(width, height, maxIter)

\* C14: interior point.  The cell with x = 3/4 width and y = 1/2 height maps to
\* cx = 0 and cy = 0 in both evaluators, and every cell that an evaluator maps
\* to c = 0 gets the count maxIter from it (255 for x = 192, y = 128, width =
\* height = 256, maxIter = 255).
C14_InteriorPoint ==
    cellPc = "done" =>
        /\ (4 * x = 3 * width /\ 2 * y = height) =>
               /\ CpuCx(x, width) = FZero /\ CpuCy(y, height) = FZero
               /\ ShaderCx(PointGid, PointParams) = FZero
               /\ ShaderCy(PointGid, PointParams) = FZero
        /\ (CpuCx(x, width) = FZero /\ CpuCy(y, height) = FZero) => cpuCount = maxIter
        /\ (ShaderCx(PointGid, PointParams) = FZero /\ ShaderCy(PointGid, PointParams) = FZero)
               => gpuCount = maxIter

\* C14 witness: the stated case, evaluated by both.
C14_Witness ==
    /\ cellPc = "done"
    /\ width = 256 /\ height = 256 /\ maxIter = 255
    /\ x = 192 /\ y = 128
    /\ cpuCount = 255 /\ gpuCount = 255

(***************************************************************************)
(* Claims checked under SpecScale.                                         *)
(***************************************************************************)
\* C15: scale invariance.  Cell (2x, 2y) of the grid of twice the width and
\* height maps to the same cx and cy as cell (x, y) of the width x height grid,
\* and, for the same maxIter, is given the same count.
C15_ScaleInvariant ==
    cellPc = "scaled" =>
        /\ CpuCx(x, width) = CpuCx(x \div 2, width \div 2)
        /\ CpuCy(y, height) = CpuCy(y \div 2, height \div 2)
        /\ cpuCount = coarseCount

\* C15 witness: a cell of a grid whose size is no power of two, evaluated at
\* both scales, with a count that is neither zero nor the cap.
C15_Witness ==
    /\ cellPc = "scaled"
    /\ width = 6 /\ height = 6 /\ x > 0 /\ y > 0
    /\ maxIter = 255
    /\ cpuCount > 1 /\ cpuCount < maxIter
    /\ cpuCount = coarseCount

\* the place of the first e in the trace of the call (0: e has not happened)
First(e) ==
    IF Count(e) = 0 THEN 0
    ELSE CHOOSE k \in DOMAIN trace : trace[k] = e /\ \A j \in 1..(k - 1) : trace[j] # e

\* C16: a GPU run is one allocate, use, destroy cycle.  The device is destroyed
\* at most once, and only after the result was read from the mapped staging
\* buffer and the buffer unmapped; once the run has ended, on success or on
\* failure, no device it acquired is left undestroyed (a device that was lost
\* is gone and needs no destroy); the array drawn is
\* created in the run (none exists while the run waits) and is complete, every
\* element stored by its invocation, before drawMandelbrot receives it.
C16_SingleCycle ==
    /\ Count("destroy") <= 1
    /\ Count("destroy") = 1 =>
           /\ 0 < First("getMappedRange")
           /\ First("getMappedRange") < First("unmap")
           /\ First("unmap") < First("destroy")
    /\ device = "destroyed" <=> (runType = "gpu" /\ Count("destroy") = 1)
    /\ pc = "idle" => device \in {"none", "destroyed", "lost"}
    /\ pc \in {"await_adapter", "await_device", "await_map"} => resultData = NoData
    /\ (runType = "gpu" /\ Count("drawMandelbrot") = 1) =>
           /\ First("destroy") < First("drawMandelbrot")
           /\ DOMAIN resultData = 0..(width * height - 1)
           /\ \A k \in DOMAIN resultData :
                  /\ Cardinality(staging[k].by) = 1
                  /\ resultData[k] = staging[k].v

\* C17: at most one evaluation is in flight.  isLoading is true exactly while a
\* handleRun call is between its guard and its end, there is never more than
\* one such call, and a handleRun call made while isLoading is true (at any
\* await of the running GPU evaluation) returns and changes neither
\* isLoading, nor results, nor the canvases, nor the GPU, nor the run under way.
C17_OneInFlight ==
    /\ [](/\ inFlight \in {0, 1}
          /\ isLoading <=> inFlight = 1
          /\ isLoading <=> pc \in {"await_adapter", "await_device", "await_map"}
          /\ ~isLoading <=> pc = "idle")
    /\ [][blocked' > blocked =>
              /\ isLoading
              /\ UNCHANGED <<isLoading, resolution, results, canvas, gpuVars, pc, runType,
                             resultData, trace, inFlight>>]_vars

\* C17 witness: a click on a run button was turned away while the GPU run
\* waited for mapAsync, the dispatch still pending.
C17_Witness ==
    /\ blocked > 0
    /\ pc = "await_map" /\ mapState = "pending"
    /\ isLoading /\ inFlight = 1

(***************************************************************************)
(* Claims checked under SpecLive.                                          *)
(***************************************************************************)
\* C18: every run that sets isLoading to true sets it back to false, on the
\* success path and on every failure path, and a run that has ended, failed or
\* not, leaves the guard of handleRun open for a new CPU or GPU run.
C18_LoadingEnds ==
    /\ isLoading ~> ~isLoading
    /\ [](pc = "idle" => ~isLoading)
    /\ [](error # "none" => (pc = "idle" /\ ~isLoading /\ inFlight = 0))
    /\ [][(isLoading /\ ~isLoading') => (pc' = "idle" /\ inFlight' = 0)]_vars

\* C18 witness: a GPU run that lost its device has ended and isLoading is
\* false again, the CPU result of an earlier run still there.
C18_Witness ==
    /\ error = "map_failed" /\ device = "lost"
    /\ ~isLoading /\ pc = "idle" /\ inFlight = 0
    /\ results.cpu # NoResult

(***************************************************************************)
(* Claims checked under Spec, continued.                                   *)
(***************************************************************************)
\* C19: a result that is not null was computed at the resolution now selected;
\* the resolution changes only while no run is in flight, and the change
\* resets both results to null; a run changes the result of its own type
\* only; so when both results are there (the comparison is shown) they have
\* the same res.
C19_ResultsAtResolution ==
    /\ [](\A t \in {"cpu", "gpu"} : results[t] # NoResult => results[t].res = resolution)
    /\ []((results.cpu # NoResult /\ results.gpu # NoResult)
              => results.cpu.res = results.gpu.res)
    /\ [][resolution' # resolution =>
              (~isLoading /\ pc = "idle" /\ inFlight = 0 /\ results' = NoResults)]_vars
    /\ [][(resolution' = resolution /\ results' # results) =>
              /\ runType' = "cpu" => results'.gpu = results.gpu
              /\ runType' = "gpu" => results'.cpu = results.cpu]_vars

\* C19 witness: both results are shown at the selected resolution, on canvases
\* of that size, after runs at that resolution.
C19_Witness ==
    /\ results.cpu # NoResult /\ results.gpu # NoResult
    /\ results.cpu.res = resolution /\ results.gpu.res = resolution
    /\ resolution = MaxRes
    /\ canvas.cpu.image = "mandelbrot" /\ canvas.gpu.image = "mandelbrot"

=============================================================================
